---- MODULE Spec2Model ----
(***************************************************************************)
(* Model of the request-authentication and dispatch core of CryptorgApi    *)
(* (src/CryptorgApi.js): the constructor, the endpoint wrappers that feed  *)
(* sendRequest, sendRequest itself, getSignature, and the HTTP transport   *)
(* at its boundary (the callback contract of request.get / request.post).  *)
(*                                                                         *)
(* JavaScript values are tagged records, so that null, undefined, the      *)
(* empty string and a number are four different things, as they are in    *)
(* the program. Text is a sequence of one-character strings.               *)
(* HMAC-SHA256 is an uninterpreted injective term.                        *)
(***************************************************************************)
EXTENDS Integers, Sequences, FiniteSets, TLC

---------------------------------------------------------------------------
(* Bounds of the model *)

MaxCalls == 2
MaxTicks == 1
ClockStart == 9

---------------------------------------------------------------------------
(* JavaScript values *)

Null == [t |-> "null"]
Undefined == [t |-> "undefined"]
Str(s) == [t |-> "string", v |-> s]
Num(n) == [t |-> "number", v |-> n]
Obj(o) == [t |-> "object", v |-> o]
Err(code) == [t |-> "error", v |-> code]

(* JavaScript truthiness, as used by `if (err)` *)
Truthy(x) ==
    CASE x.t = "null" -> FALSE
      [] x.t = "undefined" -> FALSE
      [] x.t = "string" -> x.v # <<>>
      [] x.t = "number" -> x.v # 0
      [] OTHER -> TRUE

(* A default parameter value applies when the argument is undefined *)
Default(arg, dflt) == IF arg = Undefined THEN dflt ELSE arg

---------------------------------------------------------------------------
(* Text *)

Lower == << "a","b","c","d","e","f","g","h","i","j","k","l","m",
            "n","o","p","q","r","s","t","u","v","w","x","y","z" >>
Upper == << "A","B","C","D","E","F","G","H","I","J","K","L","M",
            "N","O","P","Q","R","S","T","U","V","W","X","Y","Z" >>
Digits == << "0","1","2","3","4","5","6","7","8","9" >>

IndexIn(tbl, c) == CHOOSE i \in 1..Len(tbl) : tbl[i] = c
Occurs(tbl, c) == \E i \in 1..Len(tbl) : tbl[i] = c

Punctuation == { "/", "=", "&", "?", "-", ".", ":", "[", "]", " " }
Chars == { Lower[i] : i \in 1..26 } \cup { Upper[i] : i \in 1..26 }
             \cup { Digits[i] : i \in 1..10 } \cup Punctuation

(* The byte a character is encoded as (ASCII; the program's text is ASCII) *)
CharCode ==
    [ c \in Chars |->
        IF Occurs(Lower, c) THEN 96 + IndexIn(Lower, c)
        ELSE IF Occurs(Upper, c) THEN 64 + IndexIn(Upper, c)
        ELSE IF Occurs(Digits, c) THEN 47 + IndexIn(Digits, c)
        ELSE CASE c = "/" -> 47
               [] c = "=" -> 61
               [] c = "&" -> 38
               [] c = "?" -> 63
               [] c = "-" -> 45
               [] c = "." -> 46
               [] c = ":" -> 58
               [] c = "[" -> 91
               [] c = "]" -> 93
               [] c = " " -> 32 ]

RECURSIVE NumberToString(_)
NumberToString(n) ==
    IF n < 10 THEN << Digits[n + 1] >>
    ELSE NumberToString(n \div 10) \o << Digits[(n % 10) + 1] >>

(* The string a value becomes when it is an operand of string `+` *)
JsToString(x) ==
    CASE x.t = "string" -> x.v
      [] x.t = "number" -> NumberToString(x.v)
      [] x.t = "null" -> << "n","u","l","l" >>
      [] x.t = "undefined" -> << "u","n","d","e","f","i","n","e","d" >>
      [] OTHER -> << "[","o","b","j","e","c","t"," ","O","b","j","e","c","t","]" >>

IsPrefix(p, s) == Len(p) <= Len(s) /\ SubSeq(s, 1, Len(p)) = p
IsSuffix(p, s) == Len(p) <= Len(s) /\ SubSeq(s, Len(s) - Len(p) + 1, Len(s)) = p

---------------------------------------------------------------------------
(* new Buffer(str).toString('base64') *)

Base64Alphabet == Upper \o Lower \o Digits \o << "+", "/" >>

(* The byte at position i of the buffer made from text s (0 past its end) *)
ByteAt(s, i) == IF i <= Len(s) THEN CharCode[s[i]] ELSE 0

(* Character k of the encoding: every 3 bytes give 4 characters of 6 bits  *)
(* each, and a last group of 1 or 2 bytes is padded with "="               *)
Base64Char(s, k) ==
    LET g == (k - 1) \div 4
        j == (k - 1) % 4
        b1 == ByteAt(s, 3 * g + 1)
        b2 == ByteAt(s, 3 * g + 2)
        b3 == ByteAt(s, 3 * g + 3)
    IN CASE j = 0 -> Base64Alphabet[(b1 \div 4) + 1]
         [] j = 1 -> Base64Alphabet[((b1 % 4) * 16) + (b2 \div 16) + 1]
         [] j = 2 -> IF 3 * g + 2 > Len(s) THEN "="
                     ELSE Base64Alphabet[((b2 % 16) * 4) + (b3 \div 64) + 1]
         [] j = 3 -> IF 3 * g + 3 > Len(s) THEN "="
                     ELSE Base64Alphabet[(b3 % 64) + 1]

Base64(s) == [k \in 1..(4 * ((Len(s) + 2) \div 3)) |-> Base64Char(s, k)]

(* crypto.createHmac('sha256', key).update(msg).digest('hex'): an           *)
(* uninterpreted term, equal only for equal key and message                 *)
HmacSha256Hex(key, msg) == [t |-> "hexdigest", key |-> key, msg |-> msg]

---------------------------------------------------------------------------
(* Literals of the program and of the calls made on it *)

apiUrl == << "h","t","t","p","s",":","/","/","a","p","i",".","c","r","y","p",
             "t","o","r","g",".","n","e","t","/" >>

GET == Str(<< "G","E","T" >>)
POST == Str(<< "P","O","S","T" >>)
PUT == Str(<< "P","U","T" >>)

PathStatus == Str(<< "a","p","i","/","s","t","a","t","u","s" >>)
PathBotInfo == Str(<< "b","o","t","/","i","n","f","o" >>)
PathBotCreate == Str(<< "b","o","t","/","c","r","e","a","t","e" >>)

QBotId7 == << "b","o","t","I","d","=","7" >>
QPair == << "p","a","i","r","=" >>
QExchange == << "&","e","x","c","h","a","n","g","e","=" >>

(* Values a caller passes *)
Pairs == { Str(<< "x" >>) }
Exchanges == { Str(<< "y" >>) }
Attributes == { Obj([name |-> << "z" >>]) }

KeyK == Str(<< "K" >>)
SecretS == Str(<< "S" >>)
Empty == Str(<< >>)

(* (key, secret) pairs a client is constructed with: complete, both empty, *)
(* both missing                                                            *)
Credentials ==
    { << KeyK, SecretS >>, << Empty, Empty >>, << Undefined, Undefined >> }

---------------------------------------------------------------------------
(* State *)

VARIABLES
    client,      \* "none" before construction, "ready" after it, "failed" if it threw
    apiKey,      \* this._apiKey
    apiSecret,   \* this._apiSecret
    clock,       \* what new Date().getTime() returns now
    running,     \* the sendRequest call on the stack (0: none)
    calls,       \* per sendRequest call: arguments, locals, position, promise
    requests,    \* the requests handed to the transport, in order
    clockReads,  \* history: per call, how often the clock was read
    sigLog,      \* history: every getSignature call, with arguments and result
    settleLog    \* history: per call, every resolve / reject invocation

vars == << client, apiKey, apiSecret, clock, running, calls, requests,
           clockReads, sigLog, settleLog >>

Init ==
    /\ client = "none"
    /\ apiKey = Undefined
    /\ apiSecret = Undefined
    /\ clock = ClockStart
    /\ running = 0
    /\ calls = << >>
    /\ requests = << >>
    /\ clockReads = << >>
    /\ sigLog = << >>
    /\ settleLog = << >>

---------------------------------------------------------------------------
(* constructor(key, secret) *)

ConstructorThrows(key, secret) == FALSE

Constructor(key, secret) ==
    /\ client = "none"
    /\ IF ConstructorThrows(key, secret)
       THEN /\ client' = "failed"
            /\ UNCHANGED << apiKey, apiSecret >>
       ELSE /\ client' = "ready"
            /\ apiKey' = key
            /\ apiSecret' = secret
    /\ UNCHANGED << clock, running, calls, requests, clockReads, sigLog, settleLog >>

---------------------------------------------------------------------------
(* getSignature(path, queryString, nonce) *)

StrForSign(path, queryString, nonce) ==
    JsToString(path) \o << "/" >> \o JsToString(nonce) \o << "/" >>
        \o JsToString(queryString)

(* createHmac refuses a key that is no string (or buffer) *)
HmacKeyAccepted(key) == key.t = "string"

Thrown == [t |-> "thrown"]

getSignature(path, queryString, nonce) ==
    IF HmacKeyAccepted(apiSecret)
    THEN HmacSha256Hex(apiSecret.v, Base64(StrForSign(path, queryString, nonce)))
    ELSE Thrown

---------------------------------------------------------------------------
(* sendRequest(method, url, query = null, params = null), step by step.    *)
(* A call runs to completion on the single JavaScript thread: no other     *)
(* call or callback runs between its steps, but the clock may advance.     *)

NewCall(method, url, query, params) ==
    [ method |-> method, url |-> url,
      query |-> Default(query, Null), params |-> Default(params, Null),
      nonce |-> Undefined, hash |-> Undefined, options |-> Undefined,
      pc |-> "nonce", promise |-> [state |-> "none", value |-> Undefined] ]

sendRequest(method, url, query, params) ==
    /\ client = "ready"
    /\ running = 0
    /\ Len(calls) < MaxCalls
    /\ calls' = Append(calls, NewCall(method, url, query, params))
    /\ running' = Len(calls) + 1
    /\ clockReads' = Append(clockReads, 0)
    /\ settleLog' = Append(settleLog, << >>)
    /\ UNCHANGED << client, apiKey, apiSecret, clock, requests, sigLog >>

(* Mutant: the time is taken once, when the module is loaded *)
ReadClock_Cached == Num(ClockStart)

(* let nonce = new Date().getTime() *)
ReadClock == Num(clock)

SR_Nonce(c) ==
    /\ running = c
    /\ calls[c].pc = "nonce"
    /\ calls' = [calls EXCEPT ![c].nonce = ReadClock, ![c].pc = "sign"]
    /\ clockReads' = [clockReads EXCEPT ![c] = @ + 1]
    /\ UNCHANGED << client, apiKey, apiSecret, clock, running, requests, sigLog, settleLog >>

(* Mutant: the signature is given a second reading of the clock *)
SignatureArgs_RereadsClock(call) == << call.url, call.query, Num(clock) >>

(* let hash = this.getSignature(url, query, nonce) *)
SignatureArgs(call) == << call.url, call.query, call.nonce >>

SR_Sign(c) ==
    /\ running = c
    /\ calls[c].pc = "sign"
    /\ LET a == SignatureArgs(calls[c])
           h == getSignature(a[1], a[2], a[3])
       IN /\ sigLog' = Append(sigLog, [ call |-> c, path |-> a[1], queryString |-> a[2],
                                        nonce |-> a[3], result |-> h ])
          /\ IF h = Thrown
             THEN /\ calls' = [calls EXCEPT ![c].pc = "thrown"]
                  /\ running' = 0
             ELSE /\ calls' = [calls EXCEPT ![c].hash = h, ![c].pc = "options"]
                  /\ UNCHANGED running
    /\ UNCHANGED << client, apiKey, apiSecret, clock, requests, clockReads, settleLog >>

(* let header = {...}; let options = {...} *)
Header(hash, key, nonce) ==
    ("CTG-API-SIGNATURE" :> hash) @@ ("CTG-API-KEY" :> key) @@ ("CTG-API-NONCE" :> nonce)

(* Mutant: the URI, and only the URI, takes a null query as empty *)
Uri_NullAsEmpty(url, query) ==
    Str(apiUrl \o JsToString(url) \o << "?" >>
            \o (IF query = Null THEN << >> ELSE JsToString(query)))

Uri(url, query) == Str(apiUrl \o JsToString(url) \o << "?" >> \o JsToString(query))

Options(header, method, url, query) ==
    ("headers" :> header) @@ ("method" :> method) @@ ("uri" :> Uri(url, query))

SR_Options(c) ==
    /\ running = c
    /\ calls[c].pc = "options"
    /\ LET header == Header(calls[c].hash, apiKey, calls[c].nonce)
       IN calls' = [calls EXCEPT
                      ![c].options = Options(header, calls[c].method, calls[c].url,
                                             calls[c].query),
                      ![c].pc = "promise"]
    /\ UNCHANGED << client, apiKey, apiSecret, clock, running, requests,
                    clockReads, sigLog, settleLog >>

(* The promise executor: what it hands to the transport *)
WithForm(options, params) == options @@ ("form" :> params)

(* Mutant: the form is attached before the method is looked at *)
Executor_FormAlways(method, options, params) ==
    IF method = GET THEN << [verb |-> "get", options |-> WithForm(options, params)] >>
    ELSE IF method = POST THEN << [verb |-> "post", options |-> WithForm(options, params)] >>
    ELSE << >>

Executor(method, options, params) ==
    IF method = GET THEN << [verb |-> "get", options |-> options] >>
    ELSE IF method = POST THEN << [verb |-> "post", options |-> WithForm(options, params)] >>
    ELSE << >>

SR_Promise(c) ==
    /\ running = c
    /\ calls[c].pc = "promise"
    /\ LET out == Executor(calls[c].method, calls[c].options, calls[c].params)
       IN /\ requests' = requests \o
                 [i \in 1..Len(out) |->
                     [ call |-> c, verb |-> out[i].verb, options |-> out[i].options,
                       done |-> FALSE, err |-> Undefined, resp |-> Undefined,
                       body |-> Undefined ]]
          /\ calls' = [calls EXCEPT
                         ![c].options = IF Len(out) = 0 THEN @ ELSE out[Len(out)].options,
                         ![c].promise = [state |-> "pending", value |-> Undefined],
                         ![c].pc = "returned"]
    /\ running' = 0
    /\ UNCHANGED << client, apiKey, apiSecret, clock, clockReads, sigLog, settleLog >>

---------------------------------------------------------------------------
(* The transport completes a request and invokes its callback once, with   *)
(* (err, resp, body): err set on a transport failure, else the response    *)
(* and its body, whatever the status code.                                 *)

Outcomes ==
    { [err |-> Err("ECONNREFUSED"), resp |-> Undefined, body |-> Undefined],
      [err |-> Null, resp |-> Obj([statusCode |-> 200]), body |-> Str(<< "o","k" >>)],
      [err |-> Null, resp |-> Obj([statusCode |-> 500]), body |-> Str(<< >>)] }

(* Mutant: the else is missing, so an error is followed by a resolve *)
GetCallback_NoElse(err, resp, body) ==
    IF Truthy(err) THEN << [op |-> "reject", arg |-> err], [op |-> "resolve", arg |-> body] >>
    ELSE << [op |-> "resolve", arg |-> body] >>

(* Mutant: a response with an error status is turned into a rejection *)
PostCallback_RejectsErrorStatus(err, resp, body) ==
    IF Truthy(err) THEN << [op |-> "reject", arg |-> err] >>
    ELSE IF resp.v.statusCode >= 400 THEN << [op |-> "reject", arg |-> resp] >>
    ELSE << [op |-> "resolve", arg |-> body] >>

(* function(err, resp, body) { if (err) reject(err); else resolve(body); } *)
GetCallback(err, resp, body) ==
    IF Truthy(err) THEN << [op |-> "reject", arg |-> err] >>
    ELSE << [op |-> "resolve", arg |-> body] >>

PostCallback(err, resp, body) ==
    IF Truthy(err) THEN << [op |-> "reject", arg |-> err] >>
    ELSE << [op |-> "resolve", arg |-> body] >>

(* resolve / reject of a promise: only the first one settles it *)
Settle(promise, s) ==
    IF promise.state # "pending" THEN promise
    ELSE [ state |-> IF s.op = "reject" THEN "rejected" ELSE "resolved", value |-> s.arg ]

RECURSIVE SettleAll(_, _)
SettleAll(promise, ss) ==
    IF ss = << >> THEN promise ELSE SettleAll(Settle(promise, Head(ss)), Tail(ss))

TransportComplete(r, o) ==
    /\ running = 0
    /\ r \in 1..Len(requests)
    /\ ~requests[r].done
    /\ LET c == requests[r].call
           ss == IF requests[r].verb = "get" THEN GetCallback(o.err, o.resp, o.body)
                 ELSE PostCallback(o.err, o.resp, o.body)
       IN /\ calls' = [calls EXCEPT ![c].promise = SettleAll(@, ss)]
          /\ settleLog' = [settleLog EXCEPT ![c] = @ \o ss]
    /\ requests' = [requests EXCEPT ![r].done = TRUE, ![r].err = o.err,
                                    ![r].resp = o.resp, ![r].body = o.body]
    /\ UNCHANGED << client, apiKey, apiSecret, clock, running, clockReads, sigLog >>

(* Time passes. The clock is followed for as long as a call can still read *)
(* it: up to MaxTicks ticks, and until the last call has read it.           *)
Tick ==
    /\ clock < ClockStart + MaxTicks
    /\ (Len(calls) < MaxCalls \/ (running # 0 /\ calls[running].pc = "nonce"))
    /\ clock' = clock + 1
    /\ UNCHANGED << client, apiKey, apiSecret, running, calls, requests,
                    clockReads, sigLog, settleLog >>

---------------------------------------------------------------------------
(* The endpoint wrappers and direct calls of sendRequest. The wrappers come *)
(* in two shapes: a GET that passes no query (status, botList) or a query   *)
(* and no params, and a POST that passes a query and the caller's           *)
(* attributes; one of each that differ in what sendRequest does is modelled.*)

status == sendRequest(GET, PathStatus, Undefined, Undefined)

createBot(params, attributes) ==
    LET query == Str(QPair \o JsToString(params.pair) \o QExchange
                        \o JsToString(params.exchange))
    IN sendRequest(POST, PathBotCreate, query, attributes)

(* sendRequest is an ordinary public method: callers can reach it with any *)
(* method, with or without a query, with or without params                 *)
DirectArgs ==
    { << PUT, PathBotInfo, Str(QBotId7), Undefined >>,
      << GET, PathBotInfo, Empty, Obj([name |-> << "z" >>]) >> }

Direct == \E a \in DirectArgs : sendRequest(a[1], a[2], a[3], a[4])

Run ==
    \/ status
    \/ \E p \in Pairs, e \in Exchanges, at \in Attributes :
           createBot([pair |-> p, exchange |-> e], at)
    \/ Direct
    \/ \E c \in 1..MaxCalls : SR_Nonce(c)
    \/ \E c \in 1..MaxCalls : SR_Sign(c)
    \/ \E c \in 1..MaxCalls : SR_Options(c)
    \/ \E c \in 1..MaxCalls : SR_Promise(c)
    \/ \E r \in 1..MaxCalls, o \in Outcomes : TransportComplete(r, o)
    \/ Tick

Next ==
    \/ \E cr \in Credentials : Constructor(cr[1], cr[2])
    \/ Run

Spec == Init /\ [][Next]_vars

(* Liveness is checked of a client as it is after construction, with        *)
(* complete credentials or with none: the synchronous part of a call runs   *)
(* to completion, and the transport eventually calls back for every         *)
(* request it was handed.                                                   *)
InitReady ==
    /\ client = "ready"
    /\ \E cr \in { << KeyK, SecretS >>, << Undefined, Undefined >> } :
          apiKey = cr[1] /\ apiSecret = cr[2]
    /\ clock = ClockStart
    /\ running = 0
    /\ calls = << >>
    /\ requests = << >>
    /\ clockReads = << >>
    /\ sigLog = << >>
    /\ settleLog = << >>

SyncStep == \E c \in 1..MaxCalls : SR_Nonce(c) \/ SR_Sign(c) \/ SR_Options(c) \/ SR_Promise(c)

FairSpec ==
    /\ InitReady /\ [][Run]_vars
    /\ WF_vars(SyncStep)
    /\ \A r \in 1..MaxCalls : WF_vars(\E o \in Outcomes : TransportComplete(r, o))

---------------------------------------------------------------------------
(* Vocabulary of the properties *)

CallIds == 1..Len(calls)
RequestIds == 1..Len(requests)
RequestsOf(c) == { r \in RequestIds : requests[r].call = c }
SigCallsOf(c) == { i \in 1..Len(sigLog) : sigLog[i].call = c }

Supported(c) == calls[c].method \in { GET, POST }
Finished(c) == calls[c].pc \in { "returned", "thrown" }
Returned(c) == calls[c].pc = "returned"
Settled(c) == calls[c].promise.state \in { "resolved", "rejected" }

(* The path and the query text of a request URI: what follows the base URL, *)
(* split at its first "?"                                                   *)
UriRest(uri) == SubSeq(uri, Len(apiUrl) + 1, Len(uri))
QuestionMark(s) == CHOOSE i \in 1..Len(s) : s[i] = "?" /\ \A j \in 1..(i - 1) : s[j] # "?"
PathOfUri(uri) == SubSeq(UriRest(uri), 1, QuestionMark(UriRest(uri)) - 1)
QueryOfUri(uri) ==
    SubSeq(UriRest(uri), QuestionMark(UriRest(uri)) + 1, Len(UriRest(uri)))

(* The query text the specification asks for: empty when the query is absent *)
QueryOrEmpty(query) == IF query = Null THEN << >> ELSE JsToString(query)

CredentialsMissing ==
    \/ apiKey \in { Undefined, Null, Empty }
    \/ apiSecret \in { Undefined, Null, Empty }

---------------------------------------------------------------------------
(* C1: a sendRequest call whose method is neither GET nor POST fails        *)
(* explicitly: it throws, or its promise is eventually rejected; it never   *)
(* stays pending forever and never resolves.                                *)
UnsupportedCalled(c) == c \in CallIds /\ ~Supported(c)
FailedExplicitly(c) ==
    c \in CallIds /\ (calls[c].pc = "thrown" \/ calls[c].promise.state = "rejected")

C1_UnsupportedMethodFailsExplicitly ==
    /\ \A c \in 1..MaxCalls : UnsupportedCalled(c) ~> FailedExplicitly(c)
    /\ [](\A c \in CallIds : ~Supported(c) => calls[c].promise.state # "resolved")

(* C2: the promise returned for a GET or POST call is settled exactly once: *)
(* given that the transport calls back, it eventually becomes resolved or   *)
(* rejected, and once settled it keeps its outcome and value and no second  *)
(* resolve / reject is made on it.                                          *)
SupportedReturned(c) == c \in CallIds /\ Supported(c) /\ Returned(c)
SettledCall(c) == c \in CallIds /\ Settled(c)
StaysSettled ==
    \A c \in CallIds : Settled(c) =>
        /\ calls'[c].promise = calls[c].promise
        /\ settleLog'[c] = settleLog[c]

C2_SettledExactlyOnce ==
    /\ \A c \in 1..MaxCalls : SupportedReturned(c) ~> SettledCall(c)
    /\ [][StaysSettled]_vars
    /\ [](\A c \in CallIds : Len(settleLog[c]) = IF Settled(c) THEN 1 ELSE 0)

C2_Witness ==
    \E c \in CallIds : Supported(c) /\ Settled(c) /\ Len(settleLog[c]) = 1

(* C3: once the exchange of a GET or POST call has completed, the promise   *)
(* is resolved with the body the transport delivered, whatever the status   *)
(* code, unless the transport reported an error, and then it is rejected    *)
(* with that error; a promise is rejected only for a transport error.       *)
C3_ResolveBodyRejectTransportError ==
    /\ \A r \in RequestIds : requests[r].done =>
          calls[requests[r].call].promise =
              IF requests[r].err = Null
              THEN [state |-> "resolved", value |-> requests[r].body]
              ELSE [state |-> "rejected", value |-> requests[r].err]
    /\ \A c \in CallIds : calls[c].promise.state = "rejected" =>
          \E r \in RequestsOf(c) : requests[r].done /\ requests[r].err # Null
    /\ \A c \in CallIds : calls[c].promise.state = "resolved" =>
          \E r \in RequestsOf(c) : requests[r].done /\ requests[r].err = Null

C3_Witness ==
    /\ \E r \in RequestIds :
          /\ requests[r].done /\ requests[r].err = Null
          /\ requests[r].resp.v.statusCode = 500
          /\ calls[requests[r].call].promise.state = "resolved"
    /\ \E r \in RequestIds :
          /\ requests[r].done /\ requests[r].err # Null
          /\ calls[requests[r].call].promise.state = "rejected"

(* C4: the URI of every outbound request is baseUrl + path + "?" + query    *)
(* with an absent or null query taken as the empty string; it never ends in *)
(* "?null", and the string that is signed is path + "/" + nonce + "/" +     *)
(* query with the same defaulting, so it never ends in "/null".             *)
C4_UriQueryDefaultsToEmpty ==
    /\ \A r \in RequestIds :
          LET call == calls[requests[r].call]
              uri == requests[r].options["uri"]
          IN /\ uri = Str(apiUrl \o JsToString(call.url) \o << "?" >>
                            \o QueryOrEmpty(call.query))
             /\ ~IsSuffix(<< "?","n","u","l","l" >>, uri.v)
    /\ \A i \in 1..Len(sigLog) : sigLog[i].result # Thrown =>
          sigLog[i].result.msg =
              Base64(JsToString(sigLog[i].path) \o << "/" >> \o JsToString(sigLog[i].nonce)
                         \o << "/" >> \o QueryOrEmpty(sigLog[i].queryString))

(* C5: in every request, CTG-API-KEY is the client's apiKey, CTG-API-NONCE  *)
(* is the nonce that was passed to getSignature, and CTG-API-SIGNATURE is   *)
(* getSignature of the path and the query text that stand in the request    *)
(* URI, with that nonce.                                                    *)
C5_HeadersConsistentWithRequestLine ==
    \A r \in RequestIds :
        LET h == requests[r].options["headers"]
            uri == requests[r].options["uri"].v
        IN /\ h["CTG-API-KEY"] = apiKey
           /\ \E i \in SigCallsOf(requests[r].call) :
                 /\ h["CTG-API-NONCE"] = sigLog[i].nonce
                 /\ h["CTG-API-SIGNATURE"] = sigLog[i].result
           /\ IsPrefix(apiUrl, uri)
           /\ h["CTG-API-SIGNATURE"] =
                 getSignature(Str(PathOfUri(uri)), Str(QueryOfUri(uri)), h["CTG-API-NONCE"])

C5_Witness ==
    /\ \E r \in RequestIds : calls[requests[r].call].query = Null
    /\ \E r \in RequestIds : calls[requests[r].call].query \notin { Null, Empty }

(* C6: a POST call hands its params to the transport as the form payload    *)
(* and its URI holds the path and the query text only; the options of a GET *)
(* request have no form and no body field, whatever params were passed.     *)
C6_PostFormGetNoBody ==
    \A r \in RequestIds :
        LET call == calls[requests[r].call]
            o == requests[r].options
        IN /\ call.method = POST =>
                /\ requests[r].verb = "post"
                /\ "form" \in DOMAIN o /\ o["form"] = call.params
                /\ PathOfUri(o["uri"].v) = JsToString(call.url)
                /\ QueryOfUri(o["uri"].v) = JsToString(call.query)
           /\ call.method = GET =>
                /\ requests[r].verb = "get"
                /\ "form" \notin DOMAIN o /\ "body" \notin DOMAIN o

C6_Witness ==
    /\ \E r \in RequestIds :
          calls[requests[r].call].method = POST /\ calls[requests[r].call].params # Null
    /\ \E r \in RequestIds :
          calls[requests[r].call].method = GET /\ calls[requests[r].call].params # Null

---------------------------------------------------------------------------
(* C7: with several calls in flight, every request carries the nonce its    *)
(* own call captured from the clock at its own call time and the signature  *)
(* computed from that nonce; no step of another call or callback changes a  *)
(* call's nonce, signature or request; and two calls with the same path and *)
(* query whose nonces were captured at different clock instants carry       *)
(* different nonces and different signatures.                               *)
CarriesOwnNonce ==
    \A r \in RequestIds :
        LET call == calls[requests[r].call]
            h == requests[r].options["headers"]
        IN /\ h["CTG-API-NONCE"] = call.nonce
           /\ h["CTG-API-SIGNATURE"] = getSignature(call.url, call.query, call.nonce)

NonceIsCallTime ==
    /\ \A c \in CallIds :
          /\ (calls[c].nonce = Undefined /\ calls'[c].nonce # Undefined)
                => calls'[c].nonce = Num(clock)
          /\ calls[c].nonce # Undefined => calls'[c].nonce = calls[c].nonce
          /\ calls[c].hash # Undefined => calls'[c].hash = calls[c].hash
    /\ \A r \in RequestIds : requests'[r].options = requests[r].options

DistinctInstantsDistinctSignatures ==
    \A r1, r2 \in RequestIds :
        LET c1 == calls[requests[r1].call]
            c2 == calls[requests[r2].call]
            h1 == requests[r1].options["headers"]
            h2 == requests[r2].options["headers"]
        IN (c1.url = c2.url /\ c1.query = c2.query /\ c1.nonce # c2.nonce) =>
              /\ h1["CTG-API-NONCE"] # h2["CTG-API-NONCE"]
              /\ h1["CTG-API-SIGNATURE"] # h2["CTG-API-SIGNATURE"]

C7_CallsDoNotInterfere ==
    /\ [](CarriesOwnNonce /\ DistinctInstantsDistinctSignatures)
    /\ [][NonceIsCallTime]_vars

C7_Witness ==
    \E r1, r2 \in RequestIds :
        /\ r1 # r2
        /\ ~requests[r1].done /\ ~requests[r2].done
        /\ calls[requests[r1].call].url = calls[requests[r2].call].url
        /\ calls[requests[r1].call].query = calls[requests[r2].call].query
        /\ calls[requests[r1].call].nonce # calls[requests[r2].call].nonce

(* C8: construction fails when the key or the secret is missing or empty,   *)
(* so a client with missing credentials never issues a request.             *)
C8_NoRequestWithMissingCredentials ==
    CredentialsMissing => requests = << >>

(* C9: a call of sendRequest that has run reads the clock exactly once and  *)
(* calls getSignature exactly once, with the nonce it captured; the         *)
(* signature on its request is the one that call of getSignature returned.  *)
C9_OneNonceOneSignaturePerDispatch ==
    \A c \in CallIds :
        /\ clockReads[c] <= 1
        /\ Cardinality(SigCallsOf(c)) <= 1
        /\ \A i \in SigCallsOf(c) :
              /\ clockReads[c] = 1
              /\ sigLog[i].nonce # Undefined
              /\ sigLog[i].nonce = calls[c].nonce
        /\ Finished(c) => (clockReads[c] = 1 /\ Cardinality(SigCallsOf(c)) = 1)
        /\ \A r \in RequestsOf(c) : \A i \in SigCallsOf(c) :
              requests[r].options["headers"]["CTG-API-SIGNATURE"] = sigLog[i].result

C9_Witness ==
    \E c1, c2 \in CallIds :
        /\ c1 # c2
        /\ RequestsOf(c1) # {} /\ RequestsOf(c2) # {}
        /\ calls[c1].nonce # calls[c2].nonce

(* C10: every GET or POST call issues exactly one outbound request; after  *)
(* a transport error there is still only that one request, and the error    *)
(* was delivered once, as the promise's rejection.                          *)
NoRetryAfterError(c) ==
    \A r \in RequestsOf(c) : (requests[r].done /\ requests[r].err # Null) =>
        /\ Cardinality(RequestsOf(c)) = 1
        /\ settleLog[c] = << [op |-> "reject", arg |-> requests[r].err] >>
        /\ calls[c].promise = [state |-> "rejected", value |-> requests[r].err]

C10_OneRequestNoRetry ==
    \A c \in CallIds :
        /\ (Supported(c) /\ Finished(c)) => Cardinality(RequestsOf(c)) = 1
        /\ NoRetryAfterError(c)

(* What holds of C10: a GET or POST call that got past getSignature and      *)
(* returned its promise has exactly one request, before and after the       *)
(* transport's answer, and a transport error is delivered by one reject.    *)
C10_ReturnedCallOneRequestNoRetry ==
    \A c \in CallIds :
        /\ (Supported(c) /\ Returned(c)) => Cardinality(RequestsOf(c)) = 1
        /\ ~Returned(c) => RequestsOf(c) = {}
        /\ NoRetryAfterError(c)

====
